---------------------------- MODULE Spec2Model ----------------------------
(***************************************************************************)
(* A model of the block-placement game: Shape (bounds, rotate_90,          *)
(* equivalents, from_pattern, Display), Board::superimpose and the host's   *)
(* update system that commits a placement and draws the next shape.         *)
(*                                                                          *)
(* Two specifications share the module:                                     *)
(*   SpecShape  a pattern is parsed by from_pattern and the resulting       *)
(*              Shape is recoloured, rotated, expanded and rendered;        *)
(*   Spec       the game: startup followed by update ticks.                 *)
(***************************************************************************)
EXTENDS Integers, Sequences, FiniteSets, TLC

VARIABLES
    \* ---- SpecShape: one call of from_pattern and what is done with its Shape
    pat_w,          \* w argument of from_pattern
    pat_h,          \* h argument of from_pattern
    pat,            \* pat argument: a sequence of characters
    parsed,         \* outcome of from_pattern: a Shape or a panic
    the_shape,      \* the Shape from_pattern returned, recoloured by its caller
    cur,            \* the_shape after `rots` calls of rotate_90
    rots,           \* number of rotate_90 calls applied so far
    equivs,         \* result of equivalents(), <<>> before the call
    rendered,       \* result of Display (to_string), <<>> before the call
    phase,          \* "input" | "parsed" | "panicked"
    \* ---- Spec: the game
    board,          \* Board.grid: 20x20 Option<TileColor>
    selected,       \* the Shape component of the SelectedShape entity
    selected_entity,\* the Entity carrying SelectedShape
    despawned,      \* entities despawned so far
    spawned,        \* number of shape entities spawned so far; the last one's id
    pc,             \* position in update: "idle" | "evaluated" | "committed"
    translation,    \* update's local `translation` (f32, f32)
    just_pressed,   \* input_mb.just_pressed(MouseButton::Left) in this tick
    superimposition,\* update's local `superimposition`
    new_shape       \* update's local `new_shape`, spawned when commands apply

shapeVars == <<pat_w, pat_h, pat, parsed, the_shape, cur, rots, equivs, rendered, phase>>
gameVars == <<board, selected, selected_entity, despawned, spawned, pc,
              translation, just_pressed, superimposition, new_shape>>
vars == <<shapeVars, gameVars>>

---------------------------------------------------------------------------
(* Bounds of the model *)

\* SpecShape enumerates every '#'/'.' pattern of w*h <= MaxArea characters
MaxArea == 9
\* and every pattern over the whole alphabet of at most MaxPatLen characters
MaxPatLen == 3
\* with declared dimensions 0..MaxSmallDim
MaxSmallDim == 2
\* rotate_90 is applied at most MaxRotations times to one Shape
MaxRotations == 4
\* the game is followed until MaxCommits shapes have been committed: no tick
\* evaluates a placement after that
MaxCommits == 2

---------------------------------------------------------------------------
(* TileColor, Shape *)

\* enum TileColor
TileColor == {"Gray", "Red", "Green", "Blue", "Transparent"}
\* TileColor::DEFAULT
TileColor_DEFAULT == "Gray"
\* impl Distribution<TileColor> for Standard: the colours rng.gen() returns
TileColor_sample == {"Red", "Green", "Blue"}

\* the side of Shape.fields: [[bool; 8]; 8]
FIELD_SIZE == 8
FieldIdx == 0 .. (FIELD_SIZE - 1)

\* [[false; 8]; 8]
EmptyFields == [i \in FieldIdx |-> [j \in FieldIdx |-> FALSE]]

Max(a, b) == IF a >= b THEN a ELSE b

\* the inner fold of bounds(), row.iter().enumerate().fold(0, ...): max_x
\* starts at 0 and becomes max(max_x, j + 1) at every occupied column j, so
\* it ends as the largest j + 1 over the occupied columns, 0 when there is none
MaxXInRow(row) ==
    LET occupied == {j \in FieldIdx : row[j]}
    IN IF occupied = {} THEN 0
       ELSE (CHOOSE j \in occupied : \A k \in occupied : k <= j) + 1

\* the outer fold of bounds(), self.fields.iter().enumerate().fold((0, 0), ...),
\* over the rows before i
RECURSIVE BoundsFold(_, _)
BoundsFold(fields, i) ==
    IF i = 0 THEN <<0, 0>>
    ELSE LET acc == BoundsFold(fields, i - 1)
             max_x_in_row == MaxXInRow(fields[i - 1])
         IN <<Max(acc[1], max_x_in_row),
              Max(acc[2], IF max_x_in_row > 0 THEN i ELSE acc[2])>>

\* Shape::bounds: <<width, height>>
bounds(shape) == BoundsFold(shape.fields, FIELD_SIZE)

\* a rotate_90 that writes new_fields[j][height - i] (the "- 1" forgotten)
rotate_90_off_by_one(shape) ==
    LET b == bounds(shape)
        width == b[1]
        height == b[2]
        RECURSIVE Loop(_)
        Loop(k) ==
            IF k = 0 THEN EmptyFields
            ELSE LET i == (k - 1) \div width
                     j == (k - 1) % width
                 IN IF height - i < FIELD_SIZE
                    THEN [Loop(k - 1) EXCEPT ![j][height - i] = shape.fields[i][j]]
                    ELSE Loop(k - 1)
    IN [shape EXCEPT !.fields = Loop(width * height)]

\* the loops of rotate_90: new_fields after the first k iterations of
\* for i in 0..height { for j in 0..width { new_fields[j][height - i - 1] = fields[i][j] } }
RECURSIVE RotateLoop(_, _, _, _)
RotateLoop(fields, width, height, k) ==
    IF k = 0 THEN EmptyFields
    ELSE LET i == (k - 1) \div width
             j == (k - 1) % width
         IN [RotateLoop(fields, width, height, k - 1)
                EXCEPT ![j][height - i - 1] = fields[i][j]]

\* Shape::rotate_90: the colour is copied (..*self)
rotate_90(shape) ==
    LET b == bounds(shape)
        width == b[1]
        height == b[2]
    IN [shape EXCEPT !.fields = RotateLoop(shape.fields, width, height, width * height)]

\* Vec::contains
Contains(shapes, s) == \E k \in 1 .. Len(shapes) : shapes[k] = s

\* an equivalents() that compares a rotation with the previous entry only
equivalents_adjacent_only(shape) ==
    LET rot90 == rotate_90(shape)
        rot180 == rotate_90(rot90)
        rot270 == rotate_90(rot180)
        s1 == <<shape>>
        s2 == IF s1[Len(s1)] # rot90 THEN Append(s1, rot90) ELSE s1
        s3 == IF s2[Len(s2)] # rot180 THEN Append(s2, rot180) ELSE s2
        s4 == IF s3[Len(s3)] # rot270 THEN Append(s3, rot270) ELSE s3
    IN s4

\* Shape::equivalents
equivalents(shape) ==
    LET rot90 == rotate_90(shape)
        rot180 == rotate_90(rot90)
        rot270 == rotate_90(rot180)
        s1 == <<shape>>
        s2 == IF ~Contains(s1, rot90) THEN Append(s1, rot90) ELSE s1
        s3 == IF ~Contains(s2, rot180) THEN Append(s2, rot180) ELSE s2
        s4 == IF ~Contains(s3, rot270) THEN Append(s3, rot270) ELSE s3
    IN s4

---------------------------------------------------------------------------
(* from_pattern and Display *)

\* The characters a pattern is made of here: '#', '.', an invalid one-byte
\* character and an invalid two-byte character (U+00E9).
PatChars == {"#", ".", "x", "U+00E9"}

\* the number of bytes of a character in UTF-8
Utf8Len(c) == IF c = "U+00E9" THEN 2 ELSE 1

\* str::len: the length in bytes
RECURSIVE StrLen(_)
StrLen(s) == IF s = <<>> THEN 0 ELSE Utf8Len(Head(s)) + StrLen(Tail(s))

Panic(msg) == [ok |-> FALSE, panic |-> msg]
Ok(shape) == [ok |-> TRUE, shape |-> shape]

\* the loop of from_pattern, from character i (0-based) on
RECURSIVE FromPatternLoop(_, _, _, _)
FromPatternLoop(w, p, i, fields) ==
    IF i = Len(p) THEN Ok([color |-> TileColor_DEFAULT, fields |-> fields])
    ELSE LET x == i % w
             y == i \div w
             c == p[i + 1]
         IN IF x >= FIELD_SIZE \/ y >= FIELD_SIZE
            THEN Panic("Pattern dimensions out of bounds")
            ELSE IF c = "#"
            THEN FromPatternLoop(w, p, i + 1, [fields EXCEPT ![y][x] = TRUE])
            ELSE IF c = "."
            THEN FromPatternLoop(w, p, i + 1, [fields EXCEPT ![y][x] = FALSE])
            ELSE Panic("Invalid character in pattern")

\* a from_pattern that reads every character other than '#' as an empty cell
RECURSIVE FromPatternLoopLenient(_, _, _, _)
FromPatternLoopLenient(w, p, i, fields) ==
    IF i = Len(p) THEN Ok([color |-> TileColor_DEFAULT, fields |-> fields])
    ELSE LET x == i % w
             y == i \div w
         IN IF x >= FIELD_SIZE \/ y >= FIELD_SIZE
            THEN Panic("Pattern dimensions out of bounds")
            ELSE FromPatternLoopLenient(w, p, i + 1, [fields EXCEPT ![y][x] = (p[i + 1] = "#")])

from_pattern_lenient(w, h, p) ==
    IF StrLen(p) # w * h
    THEN Panic("Pattern length does not match given dimensions")
    ELSE FromPatternLoopLenient(w, p, 0, EmptyFields)

\* Shape::from_pattern
from_pattern(w, h, p) ==
    IF StrLen(p) # w * h
    THEN Panic("Pattern length does not match given dimensions")
    ELSE FromPatternLoop(w, p, 0, EmptyFields)

\* one row of Display: the characters of columns j.. of row i
RECURSIVE DisplayRow(_, _, _, _)
DisplayRow(shape, i, j, width) ==
    IF j >= width THEN <<>>
    ELSE <<IF shape.fields[i][j] THEN "#" ELSE ".">> \o DisplayRow(shape, i, j + 1, width)

\* the rows i.. of Display, a "\n" after each row but the last
RECURSIVE DisplayRows(_, _, _, _)
DisplayRows(shape, i, width, height) ==
    IF i >= height THEN <<>>
    ELSE DisplayRow(shape, i, 0, width)
         \o (IF i < height - 1 THEN <<"\n">> ELSE <<>>)
         \o DisplayRows(shape, i + 1, width, height)

\* a Display that writes no line break between the rows
Display_no_line_breaks(shape) ==
    LET b == bounds(shape)
        RECURSIVE RowsFrom(_)
        RowsFrom(i) ==
            IF i >= b[2] THEN <<>> ELSE DisplayRow(shape, i, 0, b[1]) \o RowsFrom(i + 1)
    IN RowsFrom(0)

\* impl fmt::Display for Shape
Display(shape) ==
    LET b == bounds(shape)
    IN DisplayRows(shape, 0, b[1], b[2])

---------------------------------------------------------------------------
(* f32 arithmetic.  An f32 of the placement computation is held as the      *)
(* integer n that stands for n / 2^24: every f32 of magnitude 1/2 or more   *)
(* and below 128 is such a value, as are the sums and differences formed    *)
(* here.  A translation component, which may be finer, is held as a record  *)
(* [m, e] that stands for m / 2^e.  Each operation rounds its exact result  *)
(* to the 24-bit significand, ties to even, as IEEE 754 does.               *)

F32_ONE == 2^24

Abs(n) == IF n < 0 THEN -n ELSE n

\* the number of bits of a >= 0
BitLen(a) == Cardinality({k \in 0 .. 30 : 2^k <= a})

\* n rounded to the nearest multiple of q, a tie to the even multiple
RoundToMultiple(n, q) ==
    LET a == Abs(n)
        lo == (a \div q) * q
        r == a - lo
        m == IF 2 * r < q THEN lo
             ELSE IF 2 * r > q THEN lo + q
             ELSE IF (lo \div q) % 2 = 0 THEN lo ELSE lo + q
    IN IF n < 0 THEN -m ELSE m

\* an integer rounded to 24 significant bits
RoundSignificand(n) ==
    LET len == BitLen(Abs(n))
    IN IF len <= 24 THEN n ELSE RoundToMultiple(n, 2^(len - 24))

\* `k as f32` for a small usize k
F32FromUsize(k) == k * F32_ONE

\* the f32 sum a + b
F32Add(a, b) == RoundSignificand(a + b)

\* the f32 difference a - b
F32Sub(a, b) == RoundSignificand(a - b)

\* the f32 product `(k as f32) * 0.5`
F32Half(k) == k * (F32_ONE \div 2)

\* the f32 product `(k as f32) * t` of a board dimension k and a translation
\* component t = [m, e]
F32MulUsize(k, t) ==
    LET p == RoundSignificand(k * t.m)
    IN IF t.e <= 24 THEN p * 2^(24 - t.e) ELSE p \div 2^(t.e - 24)

\* the product above is a multiple of 2^-24
F32Representable(k, t) ==
    t.e > 24 => RoundSignificand(k * t.m) % 2^(t.e - 24) = 0

\* f32::round: the nearest integer, half-way cases away from zero; then `as isize`
round(v) ==
    LET r == (Abs(v) + F32_ONE \div 2) \div F32_ONE
    IN IF v < 0 THEN -r ELSE r

---------------------------------------------------------------------------
(* Grid, Board, Superimposition *)

BOARD_WIDTH == 20
BOARD_HEIGHT == 20

Rows == 0 .. (BOARD_HEIGHT - 1)
Cols == 0 .. (BOARD_WIDTH - 1)

\* Option<TileColor>
None == "None"
Some(c) == c

\* Board::default(): Grid([[None; W]; H])
EmptyBoard == [y \in Rows |-> [x \in Cols |-> None]]

\* [[SuperimpositionState::Blank; BOARD_WIDTH]; BOARD_HEIGHT]
BlankGrid == [y \in Rows |-> [x \in Cols |-> "Blank"]]

\* shape_offset_to_board of superimpose: cursor_center - shape_center
shape_offset_to_board(shp, t) ==
    LET shape_bounds == bounds(shp)
        shape_center == <<F32Half(shape_bounds[1]), F32Half(shape_bounds[2])>>
        cursor_center == <<F32MulUsize(BOARD_WIDTH, t[1]), F32MulUsize(BOARD_HEIGHT, t[2])>>
    IN <<F32Sub(cursor_center[1], shape_center[1]),
         F32Sub(cursor_center[2], shape_center[2])>>

\* board_x (board_y) of superimpose for mask column (row) x and offset component off
board_coord(x, off) == round(F32Add(F32FromUsize(x), off))

\* a body that leaves success alone for a cell outside the board
VisitCell_out_of_bounds_ignored(self, acc, board_x, board_y) ==
    IF board_x < 0 \/ board_x >= BOARD_WIDTH \/ board_y < 0 \/ board_y >= BOARD_HEIGHT
    THEN acc
    ELSE IF self[board_y][board_x] # None
    THEN [fields |-> [acc.fields EXCEPT ![board_y][board_x] = "Intersects"],
          success |-> FALSE]
    ELSE [acc EXCEPT !.fields[board_y][board_x] = "Fits"]

\* a body that fails on an occupied board cell without marking it
VisitCell_intersection_unmarked(self, acc, board_x, board_y) ==
    IF board_x < 0 \/ board_x >= BOARD_WIDTH \/ board_y < 0 \/ board_y >= BOARD_HEIGHT
    THEN [acc EXCEPT !.success = FALSE]
    ELSE IF self[board_y][board_x] # None
    THEN [acc EXCEPT !.success = FALSE]
    ELSE [acc EXCEPT !.fields[board_y][board_x] = "Fits"]

\* a body that does not look at the board cell
VisitCell_occupancy_ignored(self, acc, board_x, board_y) ==
    IF board_x < 0 \/ board_x >= BOARD_WIDTH \/ board_y < 0 \/ board_y >= BOARD_HEIGHT
    THEN [acc EXCEPT !.success = FALSE]
    ELSE [acc EXCEPT !.fields[board_y][board_x] = "Fits"]

\* the body of superimpose's loop for one occupied mask cell mapped to
\* (board_x, board_y); acc is <<superimposition, success>> so far
VisitCell(self, acc, board_x, board_y) ==
    IF board_x < 0 \/ board_x >= BOARD_WIDTH \/ board_y < 0 \/ board_y >= BOARD_HEIGHT
    THEN [acc EXCEPT !.success = FALSE]
    ELSE IF self[board_y][board_x] # None
    THEN [fields |-> [acc.fields EXCEPT ![board_y][board_x] = "Intersects"],
          success |-> FALSE]
    ELSE [acc EXCEPT !.fields[board_y][board_x] = "Fits"]

\* the occupied cells <<x, y>> of shape.fields in the order the loops of
\* superimpose meet them: rows from 0, the columns of a row from 0
OccupiedCells(shp) ==
    LET occupied == {k \in 0 .. (FIELD_SIZE * FIELD_SIZE - 1) :
                        shp.fields[k \div FIELD_SIZE][k % FIELD_SIZE]}
        kth(n) == CHOOSE k \in occupied : Cardinality({j \in occupied : j < k}) = n - 1
    IN [n \in 1 .. Cardinality(occupied) |->
           <<kth(n) % FIELD_SIZE, kth(n) \div FIELD_SIZE>>]

\* the loops of superimpose over the first n occupied cells:
\* <<superimposition, success>> after them
RECURSIVE SuperimposeLoop(_, _, _, _)
SuperimposeLoop(self, cells, off, n) ==
    IF n = 0 THEN [fields |-> BlankGrid, success |-> TRUE]
    ELSE VisitCell(self, SuperimposeLoop(self, cells, off, n - 1),
                   board_coord(cells[n][1], off[1]),
                   board_coord(cells[n][2], off[2]))

\* Board::superimpose
superimpose(self, shp, t) ==
    LET cells == OccupiedCells(shp)
    IN SuperimposeLoop(self, cells, shape_offset_to_board(shp, t), Len(cells))

\* a commit that writes every marked cell, Intersects included
commit_every_marked_cell(self, fields, color) ==
    [y \in Rows |-> [x \in Cols |->
        IF fields[y][x] # "Blank" THEN Some(color) ELSE self[y][x]]]

\* a commit that writes board.grid.0[x][y]
commit_transposed(self, fields, color) ==
    [y \in Rows |-> [x \in Cols |->
        IF fields[x][y] = "Fits" THEN Some(color) ELSE self[y][x]]]

\* the commit loop of update: board.grid.0[y][x] = Some(selected_shape.color)
\* for every (y, x) whose state is Fits; each cell is written at most once
commit(self, fields, color) ==
    [y \in Rows |-> [x \in Cols |->
        IF fields[y][x] = "Fits" THEN Some(color) ELSE self[y][x]]]

---------------------------------------------------------------------------
(* The shape catalogue *)

\* a pattern of n '#'
Hashes(n) == [k \in 1 .. n |-> "#"]

\* the pattern list of main's shapes! invocation
BasePatterns ==
    << <<2, 2, Hashes(4)>>,                          \* 2x2 Square
       <<4, 1, Hashes(4)>>,                          \* Line 4
       <<3, 1, Hashes(3)>>,                          \* Line 3
       <<2, 2, <<"#", "#", ".", "#">> >>,            \* V
       <<3, 2, <<"#", "#", "#", ".", ".", "#">> >>,  \* L
       <<1, 1, Hashes(1)>>,                          \* Dot
       <<1, 2, Hashes(2)>>,                          \* Line 2
       <<3, 3, Hashes(9)>>,                          \* 3x3 Square
       <<2, 3, Hashes(6)>>,                          \* 3x2 Rectangle
       <<3, 2, <<"#", "#", "#", ".", "#", ".">> >>,  \* T
       <<3, 2, <<"#", "#", ".", ".", "#", "#">> >> >>\* S

\* the shapes! macro: temp.extend(from_pattern(x, y, pattern).equivalents()) per entry
RECURSIVE ShapesFrom(_)
ShapesFrom(k) ==
    IF k > Len(BasePatterns) THEN <<>>
    ELSE equivalents(from_pattern(BasePatterns[k][1], BasePatterns[k][2],
                                  BasePatterns[k][3]).shape)
         \o ShapesFrom(k + 1)

\* ShapePool(generated)
ShapePool == ShapesFrom(1)

---------------------------------------------------------------------------
(* SpecShape: from_pattern on bounded inputs, then the Shape's operations *)

\* the sequences of length n over S
RECURSIVE SeqsOfLen(_, _)
SeqsOfLen(S, n) ==
    IF n = 0 THEN {<<>>}
    ELSE {Append(s, c) : s \in SeqsOfLen(S, n - 1), c \in S}

NoShape == [color |-> TileColor_DEFAULT, fields |-> EmptyFields]

\* the locals of update outside a tick
NoTranslation == <<[m |-> 0, e |-> 0], [m |-> 0, e |-> 0]>>
NoSuperimposition == [fields |-> BlankGrid, success |-> FALSE]

\* startup: default_shape = from_pattern(2, 2, "####") coloured Blue
default_shape == [from_pattern(2, 2, Hashes(4)).shape EXCEPT !.color = "Blue"]

\* the state startup leaves: an all-None board and the default shape selected,
\* carried by the first shape entity
GameStarted ==
    /\ board = EmptyBoard
    /\ selected = default_shape
    /\ selected_entity = 1
    /\ despawned = {}
    /\ spawned = 1
    /\ translation = NoTranslation
    /\ just_pressed = FALSE
    /\ superimposition = NoSuperimposition
    /\ new_shape = NoShape

InitShape ==
    /\ \E w \in 0 .. MaxArea, h \in 0 .. MaxArea :
          /\ \/ /\ w * h <= MaxArea
                /\ pat \in SeqsOfLen({"#", "."}, w * h)
             \/ /\ w <= MaxSmallDim
                /\ h <= MaxSmallDim
                /\ \E n \in 0 .. MaxPatLen : pat \in SeqsOfLen(PatChars, n)
          /\ pat_w = w
          /\ pat_h = h
    /\ parsed = Panic("not called")
    /\ the_shape = NoShape
    /\ cur = NoShape
    /\ rots = 0
    /\ equivs = <<>>
    /\ rendered = <<>>
    /\ phase = "input"
    /\ GameStarted
    /\ pc = "off"

\* a call Shape::from_pattern(pat_w, pat_h, pat)
FromPattern ==
    /\ phase = "input"
    /\ parsed' = from_pattern(pat_w, pat_h, pat)
    /\ phase' = IF parsed'.ok THEN "parsed" ELSE "panicked"
    /\ the_shape' = IF parsed'.ok THEN parsed'.shape ELSE the_shape
    /\ cur' = the_shape'
    /\ UNCHANGED <<pat_w, pat_h, pat, rots, equivs, rendered>>
    /\ UNCHANGED gameVars

\* the caller's `default_shape.color = TileColor::Blue` / `new_shape.color = rng.gen()`
Recolor ==
    /\ phase = "parsed"
    /\ rots = 0 /\ equivs = <<>> /\ rendered = <<>>
    /\ the_shape.color = TileColor_DEFAULT
    /\ \E c \in TileColor_sample :
          the_shape' = [the_shape EXCEPT !.color = c]
    /\ cur' = the_shape'
    /\ UNCHANGED <<pat_w, pat_h, pat, parsed, rots, equivs, rendered, phase>>
    /\ UNCHANGED gameVars

\* a call cur.rotate_90()
Rotate ==
    /\ phase = "parsed"
    /\ equivs = <<>> /\ rendered = <<>>
    /\ rots < MaxRotations
    /\ cur' = rotate_90(cur)
    /\ rots' = rots + 1
    /\ UNCHANGED <<pat_w, pat_h, pat, parsed, the_shape, equivs, rendered, phase>>
    /\ UNCHANGED gameVars

\* a call the_shape.equivalents()
Equivalents ==
    /\ phase = "parsed"
    /\ rots = 0 /\ equivs = <<>>
    /\ equivs' = equivalents(the_shape)
    /\ UNCHANGED <<pat_w, pat_h, pat, parsed, the_shape, cur, rots, rendered, phase>>
    /\ UNCHANGED gameVars

\* a call the_shape.to_string(); rendered holds the text as its one element
Render ==
    /\ phase = "parsed"
    /\ rots = 0 /\ rendered = <<>>
    /\ rendered' = <<Display(the_shape)>>
    /\ UNCHANGED <<pat_w, pat_h, pat, parsed, the_shape, cur, rots, equivs, phase>>
    /\ UNCHANGED gameVars

NextShape == FromPattern \/ Recolor \/ Rotate \/ Equivalents \/ Render

SpecShape == InitShape /\ [][NextShape]_vars

---------------------------------------------------------------------------
(* Spec: the game.  One run of the update system is the steps               *)
(*   idle -> evaluated -> idle                 (nothing committed)          *)
(*   idle -> evaluated -> committed -> idle    (a commit)                   *)
(* The overlay and the sprites are presentation and are left out.          *)

\* the translations a tick may compute from the cursor: per axis, f32 values
\* [m, e] = m / 2^e.  x: -1/16, 0.1 - 1 ulp, 0.1, 0.125, 0.5; y: 0.1, 0.5, 15/16,
\* 1.0.
TranslationsX ==
    { [m |-> -1, e |-> 4], [m |-> 3355443, e |-> 25], [m |-> 13421773, e |-> 27],
      [m |-> 1, e |-> 3], [m |-> 1, e |-> 1] }
TranslationsY ==
    { [m |-> 13421773, e |-> 27], [m |-> 1, e |-> 1], [m |-> 15, e |-> 4],
      [m |-> 1, e |-> 0] }

\* the f32 nearest to 0.1
F32_0_1 == [m |-> 13421773, e |-> 27]

\* the draws <<rng.gen_range(0..shape_pool.0.len()), rng.gen()>> a commit may make
NextShapeDraws == { <<0, "Red">>, <<2, "Green">>, <<3, "Blue">>, <<5, "Red">> }

\* the number of commits applied so far
commits == spawned - 1

InitGame ==
    /\ GameStarted
    /\ pc = "idle"
    /\ pat_w = 0
    /\ pat_h = 0
    /\ pat = <<>>
    /\ parsed = Panic("not called")
    /\ the_shape = NoShape
    /\ cur = NoShape
    /\ rots = 0
    /\ equivs = <<>>
    /\ rendered = <<>>
    /\ phase = "off"

\* update with no cursor position (window.cursor_position() is None): only the
\* overlay is cleared
TickWithoutCursor ==
    /\ pc = "idle"
    /\ UNCHANGED vars

\* update up to `let superimposition = board.grid.superimpose(selected_shape, translation)`
Evaluate ==
    /\ pc = "idle"
    /\ commits < MaxCommits
    /\ \E tx \in TranslationsX, ty \in TranslationsY, pressed \in BOOLEAN :
          /\ F32Representable(BOARD_WIDTH, tx)
          /\ F32Representable(BOARD_HEIGHT, ty)
          /\ translation' = <<tx, ty>>
          /\ just_pressed' = pressed
          /\ superimposition' = superimpose(board, selected, <<tx, ty>>)
    /\ pc' = "evaluated"
    /\ UNCHANGED <<board, selected, selected_entity, despawned, spawned, new_shape>>
    /\ UNCHANGED shapeVars

\* a commit condition that leaves out superimposition.success
CommitCondition_success_ignored == just_pressed

\* input_mb.just_pressed(MouseButton::Left) && superimposition.success
CommitCondition == just_pressed /\ superimposition.success

\* the body of `if input_mb.just_pressed(MouseButton::Left) && superimposition.success`:
\* the commit loop, the draw of new_shape, and the queued despawn and spawn
Commit ==
    /\ pc = "evaluated"
    /\ CommitCondition
    /\ board' = commit(board, superimposition.fields, selected.color)
    /\ \E d \in NextShapeDraws :
          new_shape' = [ShapePool[d[1] + 1] EXCEPT !.color = d[2]]
    /\ spawned' = spawned + 1
    /\ pc' = "committed"
    /\ UNCHANGED <<selected, selected_entity, despawned, translation, just_pressed,
                   superimposition>>
    /\ UNCHANGED shapeVars

\* the end of a tick that committed nothing: update returns, its locals are dropped
EndTick ==
    /\ pc = "evaluated"
    /\ ~CommitCondition
    /\ pc' = "idle"
    /\ translation' = NoTranslation
    /\ just_pressed' = FALSE
    /\ superimposition' = NoSuperimposition
    /\ UNCHANGED <<board, selected, selected_entity, despawned, spawned, new_shape>>
    /\ UNCHANGED shapeVars

\* the end of a tick that committed: update returns and its queued commands are
\* applied: despawn_recursive of the selected entity, spawn of new_shape with
\* SelectedShape
ApplyCommands ==
    /\ pc = "committed"
    /\ despawned' = despawned \cup {selected_entity}
    /\ selected' = new_shape
    /\ selected_entity' = spawned
    /\ pc' = "idle"
    /\ translation' = NoTranslation
    /\ just_pressed' = FALSE
    /\ superimposition' = NoSuperimposition
    /\ new_shape' = NoShape
    /\ UNCHANGED <<board, spawned>>
    /\ UNCHANGED shapeVars

Next == TickWithoutCursor \/ Evaluate \/ Commit \/ EndTick \/ ApplyCommands

Spec == InitGame /\ [][Next]_vars

---------------------------------------------------------------------------
(* Properties of Shape, checked under SpecShape *)

\* every cell of the mask is false
MaskEmpty(s) == \A i \in FieldIdx, j \in FieldIdx : ~s.fields[i][j]

\* the mask has an occupied cell in row 0 and an occupied cell in column 0
TouchesRow0AndColumn0(s) ==
    /\ \E j \in FieldIdx : s.fields[0][j]
    /\ \E i \in FieldIdx : s.fields[i][0]

\* C1 as claimed: applying rotate_90 four times to any Shape, masks with an
\* empty row 0 or column 0 included, gives back the same mask and colour.
C1_FourRotationsRestoreAnyShape ==
    (phase = "parsed" /\ rots = 4) => cur = the_shape

\* C1 amended: applying rotate_90 four times to a Shape whose mask is empty or
\* has an occupied cell in row 0 and in column 0 gives back the same mask,
\* cell for cell, with the colour unchanged.
C1_FourRotationsRestoreAnchoredShape ==
    (/\ phase = "parsed"
     /\ rots = 4
     /\ (MaskEmpty(the_shape) \/ TouchesRow0AndColumn0(the_shape)))
    => (cur.fields = the_shape.fields /\ cur.color = the_shape.color)

\* a recoloured 3x2 Shape without rotational symmetry, rotated four times
C1_Witness ==
    /\ phase = "parsed"
    /\ rots = 4
    /\ TouchesRow0AndColumn0(the_shape)
    /\ bounds(the_shape) = <<3, 2>>
    /\ the_shape.color = "Blue"
    /\ rotate_90(rotate_90(the_shape)) # the_shape

\* the 2x2 solid square and the L-tromino "##.#" of the catalogue
Square2x2 == from_pattern(2, 2, <<"#", "#", "#", "#">>).shape
LTromino == from_pattern(2, 2, <<"#", "#", ".", "#">>).shape

\* the Shape itself and its 90, 180 and 270 degree rotations
RotationsOf(s) ==
    <<s, rotate_90(s), rotate_90(rotate_90(s)), rotate_90(rotate_90(rotate_90(s)))>>

\* C8: equivalents() starts with the Shape itself, has 1 to 4 entries, no two
\* of them with equal masks; its entries are the Shape's rotations, each
\* present once; the 2x2 solid square gives 1 entry and the L-tromino 4.
C8_EquivalentsDeduplicated ==
    equivs # <<>> =>
        LET rot == RotationsOf(the_shape)
        IN /\ equivs[1] = the_shape
           /\ Len(equivs) \in 1 .. 4
           /\ \A a \in 1 .. Len(equivs), b \in 1 .. Len(equivs) :
                 a # b => equivs[a].fields # equivs[b].fields
           /\ \A n \in 1 .. 4 : \E k \in 1 .. Len(equivs) : equivs[k] = rot[n]
           /\ \A k \in 1 .. Len(equivs) : \E n \in 1 .. 4 : equivs[k] = rot[n]
           /\ \A a \in 1 .. Len(equivs), b \in 1 .. Len(equivs) :
                 a < b => \E n \in 1 .. 4, m \in 1 .. 4 :
                             n < m /\ equivs[a] = rot[n] /\ equivs[b] = rot[m]
           /\ (the_shape.fields = Square2x2.fields => Len(equivs) = 1)
           /\ (the_shape.fields = LTromino.fields => Len(equivs) = 4)

\* equivalents() of a Shape whose 180 degree rotation is the Shape itself while
\* its 90 degree rotation is not: the third rotation is dropped against the
\* first entry, not the previous one
C8_Witness ==
    /\ equivs # <<>>
    /\ Len(equivs) = 2
    /\ rotate_90(rotate_90(the_shape)) = the_shape
    /\ rotate_90(the_shape) # the_shape

ValidChar(c) == c \in {"#", "."}

RoundTripInput ==
    /\ phase = "parsed"
    /\ rendered # <<>>
    /\ pat_w \in 1 .. FIELD_SIZE
    /\ pat_h \in 1 .. FIELD_SIZE
    /\ bounds(the_shape) = <<pat_w, pat_h>>

\* C7 as claimed: for such a pattern the rendering of from_pattern's Shape is
\* the pattern string, character for character.
C7_RenderingEqualsPattern ==
    RoundTripInput => rendered[1] = pat

\* C7 amended: for such a pattern the rendering is the pattern's rows, each of
\* width characters, joined by one line break (none after the last row); it is
\* the pattern string itself exactly when height = 1.
C7_RenderingIsPatternRowsJoined ==
    RoundTripInput =>
        LET text == rendered[1]
        IN /\ Len(text) = pat_w * pat_h + (pat_h - 1)
           /\ \A i \in 0 .. pat_h - 1, j \in 0 .. pat_w - 1 :
                 text[i * (pat_w + 1) + j + 1] = pat[i * pat_w + j + 1]
           /\ \A i \in 0 .. pat_h - 2 : text[i * (pat_w + 1) + pat_w + 1] = "\n"
           /\ (text = pat <=> pat_h = 1)

\* a rendered pattern of three rows with an empty cell in it
C7_Witness ==
    /\ RoundTripInput
    /\ pat_h = 3
    /\ pat_w = 2
    /\ \E k \in 1 .. Len(pat) : pat[k] = "."

---------------------------------------------------------------------------
(* Properties of superimpose and update, checked under Spec *)

\* r is the integer nearest to v / 2^24, a half-way case away from zero
IsRoundHalfAwayFromZero(r, v) ==
    IF v >= 0
    THEN r * F32_ONE - F32_ONE \div 2 <= v /\ v < r * F32_ONE + F32_ONE \div 2
    ELSE r * F32_ONE - F32_ONE \div 2 < v /\ v <= r * F32_ONE + F32_ONE \div 2

RoundedHalfAwayFromZero(v) == CHOOSE r \in -64 .. 64 : IsRoundHalfAwayFromZero(r, v)

\* the occupied mask cells <<x, y>> of a Shape
OccupiedSet(shp) == {c \in FieldIdx \X FieldIdx : shp.fields[c[2]][c[1]]}

\* the board coordinates <<bx, by>> = <<round(x + offset.x), round(y + offset.y)>>
\* of the occupied mask cells of shp placed at translation t
MappedCells(shp, t) ==
    LET off == shape_offset_to_board(shp, t)
    IN {<<RoundedHalfAwayFromZero(F32Add(F32FromUsize(c[1]), off[1])),
          RoundedHalfAwayFromZero(F32Add(F32FromUsize(c[2]), off[2]))>> :
            c \in OccupiedSet(shp)}

OnBoard(c) == c[1] \in Cols /\ c[2] \in Rows

\* the cells <<x, y>> of a status grid in state st
CellsIn(fields, st) == {c \in Cols \X Rows : fields[c[2]][c[1]] = st}

\* C2: superimpose returns success = true exactly when every occupied mask
\* cell maps, by bx = round(x + offset.x), by = round(y + offset.y) rounded half
\* away from zero, to a coordinate inside [0,20) x [0,20) whose board cell is
\* None; one occupied cell mapped outside the board forces success = false,
\* and no Fits mark stands anywhere but on the image of an occupied cell.
C2_SuccessIffEveryCellFits ==
    pc = "evaluated" =>
        LET img == MappedCells(selected, translation)
        IN /\ superimposition.success <=>
                 \A c \in img : OnBoard(c) /\ board[c[2]][c[1]] = None
           /\ (\E c \in img : ~OnBoard(c)) => ~superimposition.success
           /\ CellsIn(superimposition.fields, "Fits") \subseteq img

\* an evaluation with one occupied cell mapped outside the board and another
\* marked Fits
C2_Witness ==
    /\ pc = "evaluated"
    /\ ~superimposition.success
    /\ \E c \in MappedCells(selected, translation) : ~OnBoard(c)
    /\ CellsIn(superimposition.fields, "Fits") # {}
    /\ CellsIn(superimposition.fields, "Intersects") = {}

\* C3: in the status grid a board cell is Intersects exactly when an occupied
\* mask cell maps onto it and the board cell is Some, Fits exactly when one
\* maps onto it and the board cell is None, Blank otherwise: every occupied
\* cell is scanned whatever the cells before it met, and an occupied board
\* cell under the shape gives success = false.
C3_StatusGridMarksEveryCell ==
    pc = "evaluated" =>
        LET img == MappedCells(selected, translation)
        IN /\ \A y \in Rows, x \in Cols :
                 superimposition.fields[y][x] =
                     IF <<x, y>> \in img
                     THEN IF board[y][x] # None THEN "Intersects" ELSE "Fits"
                     ELSE "Blank"
           /\ (\E c \in img : OnBoard(c) /\ board[c[2]][c[1]] # None)
                 => ~superimposition.success

\* an evaluation that marks a cell Intersects, then a cell later in the scan
\* Fits, and has an occupied cell outside the board
C3_Witness ==
    /\ pc = "evaluated"
    /\ ~superimposition.success
    /\ \E a \in CellsIn(superimposition.fields, "Intersects"),
          b \in CellsIn(superimposition.fields, "Fits") :
          b[2] > a[2] \/ (b[2] = a[2] /\ b[1] > a[1])
    /\ \E c \in MappedCells(selected, translation) : ~OnBoard(c)

\* what C4 says of a board `after` committing the result `fields` with
\* `color` to the board `before`
CommitEffect(before, after, fields, color) ==
    \A y \in Rows, x \in Cols :
        IF fields[y][x] = "Fits"
        THEN after[y][x] = Some(color)
        ELSE after[y][x] = before[y][x]

\* C4: committing a superimposition result sets every board cell marked Fits
\* to Some(colour of the placed shape) and leaves every cell marked Intersects
\* or Blank with the value it had: both of the commit update applies and of
\* the commit loop run on any result an evaluation produces.
C4_CommitWritesOnlyFitsCells ==
    /\ [](pc = "evaluated" =>
            CommitEffect(board, commit(board, superimposition.fields, selected.color),
                         superimposition.fields, selected.color))
    /\ [][(pc = "evaluated" /\ pc' = "committed") =>
            CommitEffect(board, board', superimposition.fields, selected.color)]_vars

\* a committed placement next to cells of another colour placed earlier
C4_Witness ==
    /\ pc = "committed"
    /\ \E c \in CellsIn(superimposition.fields, "Fits") :
          board[c[2]][c[1]] = Some(selected.color)
    /\ \E c \in CellsIn(superimposition.fields, "Blank") :
          board[c[2]][c[1]] \notin {None, Some(selected.color)}

\* C5: once a successful result is committed, superimposing the same shape at
\* the same anchor again returns success = false, marks every cell that was
\* Fits as Intersects and marks no cell Fits; the 2x2 solid shape committed
\* on the empty board at anchor (0.1, 0.1) gives Intersects on exactly the 4
\* cells of columns 1..2 and rows 1..2.
C5_SecondPlacementIntersects ==
    pc = "committed" =>
        LET second == superimpose(board, selected, translation)
        IN /\ OccupiedSet(selected) # {}
           /\ ~second.success
           /\ CellsIn(superimposition.fields, "Fits") # {}
           /\ CellsIn(second.fields, "Intersects")
                 = CellsIn(superimposition.fields, "Fits")
           /\ CellsIn(second.fields, "Fits") = {}
           /\ (/\ commits = 1
               /\ selected.fields = Square2x2.fields
               /\ translation = <<F32_0_1, F32_0_1>>)
              => CellsIn(second.fields, "Intersects") = (1 .. 2) \X (1 .. 2)

\* the 2x2 solid shape committed on the empty board at anchor (0.1, 0.1)
C5_Witness ==
    /\ pc = "committed"
    /\ commits = 1
    /\ selected.fields = Square2x2.fields
    /\ translation = <<F32_0_1, F32_0_1>>
    /\ CellsIn(board, Some(selected.color)) = (1 .. 2) \X (1 .. 2)

\* C9: within a tick the board changes only by the one commit of a tick whose
\* accept signal is present and whose superimposition succeeded; that tick
\* draws new_shape from the catalogue, retires the selected entity and selects
\* the new one; a retired entity is never selected again; a tick without
\* accept or without success leaves the board and the selected shape alone.
C9_CommitOnlyOnAcceptedSuccess ==
    /\ [](selected_entity \notin despawned)
    /\ [][/\ board' # board =>
                (pc = "evaluated" /\ just_pressed /\ superimposition.success)
          /\ (selected' # selected \/ selected_entity' # selected_entity) =>
                pc = "committed"
          /\ (pc = "evaluated" /\ just_pressed /\ superimposition.success) =>
                /\ pc' = "committed"
                /\ board' # board
                /\ commits' = commits + 1
                /\ \E k \in 1 .. Len(ShapePool) :
                      new_shape'.fields = ShapePool[k].fields
                /\ new_shape'.color \in TileColor_sample
          /\ (pc = "evaluated" /\ ~(just_pressed /\ superimposition.success)) =>
                /\ pc' = "idle"
                /\ board' = board
                /\ commits' = commits
                /\ selected' = selected
                /\ selected_entity' = selected_entity
          /\ pc = "committed" =>
                /\ pc' = "idle"
                /\ board' = board
                /\ commits' = commits
                /\ selected' = new_shape
                /\ selected_entity' # selected_entity
                /\ selected_entity \in despawned'
                /\ selected_entity' \notin despawned'
         ]_vars

\* after a tick that committed: the board is no longer empty, the first
\* entity is retired and another one is selected
C9_Witness ==
    /\ pc = "idle"
    /\ commits >= 1
    /\ board # EmptyBoard
    /\ 1 \in despawned
    /\ selected_entity \notin despawned

\* C10: from the all-None board on, a board cell that holds Some(c) holds
\* Some(c) in every later state: a commit writes only cells that were None
\* when its result was computed.
C10_OccupiedCellsKeepTheirValue ==
    /\ board = EmptyBoard
    /\ [][\A y \in Rows, x \in Cols :
             board[y][x] # None => board'[y][x] = board[y][x]]_vars

\* two commits applied, the cells of the first (Blue) still there beside the
\* cells of the second
C10_Witness ==
    /\ commits = 2
    /\ CellsIn(board, Some("Blue")) # {}
    /\ \E c \in Cols \X Rows : board[c[2]][c[1]] \notin {None, Some("Blue")}

\* the cells of S moved by the integer offset <<dx, dy>>
Translated(S, dx, dy) == {<<c[1] + dx, c[2] + dy>> : c \in S}

\* the set of cells is the occupied mask cells of shp moved by one common
\* integer offset
IsTranslateOfMask(cells, shp) ==
    \E dx \in -FIELD_SIZE .. BOARD_WIDTH, dy \in -FIELD_SIZE .. BOARD_HEIGHT :
        cells = Translated(OccupiedSet(shp), dx, dy)

\* C11 as claimed: whenever superimpose returns success = true, the cells
\* marked Fits are the occupied mask cells moved by one common integer offset
\* (dx, dy), as many as the mask has occupied cells; the 2x2 solid shape at
\* anchor (0.5, 0.5) on the empty board gives the Fits cells of rows 9..10 and
\* columns 9..10.
C11_FitsIsTranslatedMask ==
    (pc = "evaluated" /\ superimposition.success) =>
        LET fits == CellsIn(superimposition.fields, "Fits")
        IN /\ IsTranslateOfMask(fits, selected)
           /\ Cardinality(fits) = Cardinality(OccupiedSet(selected))
           /\ (/\ board = EmptyBoard
               /\ selected.fields = Square2x2.fields
               /\ translation = <<[m |-> 1, e |-> 1], [m |-> 1, e |-> 1]>>)
              => fits = (9 .. 10) \X (9 .. 10)

\* a successful evaluation of the 3x1 line at translation.0 = 0.1f32 - 1 ulp:
\* the mask columns 0, 1, 2 are marked Fits in the board columns 0, 1, 3
C11_Witness ==
    /\ pc = "evaluated"
    /\ superimposition.success
    /\ bounds(selected) = <<3, 1>>
    /\ translation[1] = [m |-> 3355443, e |-> 25]
    /\ \E y \in Rows :
          CellsIn(superimposition.fields, "Fits") = {<<0, y>>, <<1, y>>, <<3, y>>}

=============================================================================
